---- MODULE Spec2Model ----
(***************************************************************************)
(* Model of the Solana instruction-builder HTTP service (src/src/main.rs). *)
(*                                                                         *)
(* Text is a sequence of one-character strings, bytes are sequences of     *)
(* 0..255.  Base-58, base-64 and decimal parsing are computed the way the  *)
(* libraries the handlers call compute them.                               *)
(***************************************************************************)
EXTENDS Integers, Sequences, FiniteSets, TLC

VARIABLES conn, pool, inputs, lib
vars == <<conn, pool, inputs, lib>>

-----------------------------------------------------------------------------
(* Option<T>                                                               *)

None == <<>>
Some(x) == <<x>>
IsSome(o) == Len(o) = 1
IsNone(o) == Len(o) = 0
Unwrap(o) == o[1]

(* Result<T, E>                                                            *)
Ok(v) == [ok |-> TRUE, v |-> v]
Err(e) == [ok |-> FALSE, e |-> e]

-----------------------------------------------------------------------------
(* Byte and text helpers                                                   *)

U8_MAX == 255
U64_BYTES == 8
PUBKEY_BYTES == 32
MAX_BASE58_LEN == 44

Rep(x, n) == [i \in 1..n |-> x]
Reverse(s) == [i \in 1..Len(s) |-> s[Len(s) + 1 - i]]

RECURSIVE LeadingCount(_, _)
LeadingCount(s, x) ==
    IF s = <<>> \/ s[1] # x THEN 0 ELSE 1 + LeadingCount(Tail(s), x)

IndexOf(alphabet, c) ==
    IF \E i \in 1..Len(alphabet) : alphabet[i] = c
    THEN (CHOOSE i \in 1..Len(alphabet) : alphabet[i] = c) - 1
    ELSE -1

(* One pass of "digits * mul + carry" over a little-endian digit string in *)
(* radix `radix`; the carry that is left is appended digit by digit.       *)
RECURSIVE MulAdd(_, _, _, _)
MulAdd(digits, mul, carry, radix) ==
    IF digits = <<>>
    THEN IF carry = 0 THEN <<>>
         ELSE <<carry % radix>> \o MulAdd(<<>>, mul, carry \div radix, radix)
    ELSE LET v == digits[1] * mul + carry
         IN  <<v % radix>> \o MulAdd(Tail(digits), mul, v \div radix, radix)

-----------------------------------------------------------------------------
(* bs58 (Bitcoin alphabet)                                                 *)

B58 == <<"1", "2", "3", "4", "5", "6", "7", "8", "9", "A", "B", "C", "D", "E", "F", "G", "H", "J", "K", "L", "M", "N", "P", "Q", "R", "S", "T", "U", "V", "W", "X", "Y", "Z", "a", "b", "c", "d", "e", "f", "g", "h", "i", "j", "k", "m", "n", "o", "p", "q", "r", "s", "t", "u", "v", "w", "x", "y", "z">>

RECURSIVE Bs58DecodeLE(_, _)
Bs58DecodeLE(text, out) ==
    IF text = <<>> THEN out
    ELSE Bs58DecodeLE(Tail(text), MulAdd(out, 58, IndexOf(B58, text[1]), 256))

(* bs58::decode(text).into_vec()                                           *)
bs58_decode(text) ==
    IF \E i \in 1..Len(text) : IndexOf(B58, text[i]) < 0
    THEN Err("InvalidCharacter")
    ELSE Ok(Rep(0, LeadingCount(text, "1")) \o Reverse(Bs58DecodeLE(text, <<>>)))

RECURSIVE Bs58EncodeLE(_, _)
Bs58EncodeLE(bytes, out) ==
    IF bytes = <<>> THEN out
    ELSE Bs58EncodeLE(Tail(bytes), MulAdd(out, 256, bytes[1], 58))

(* bs58::encode(bytes).into_string()                                       *)
bs58_encode(bytes) ==
    LET digits == Rep(0, LeadingCount(bytes, 0)) \o Reverse(Bs58EncodeLE(bytes, <<>>))
    IN  [i \in 1..Len(digits) |-> B58[digits[i] + 1]]

-----------------------------------------------------------------------------
(* base64 general_purpose::STANDARD                                        *)

B64 == <<"A", "B", "C", "D", "E", "F", "G", "H", "I", "J", "K", "L", "M", "N", "O", "P", "Q", "R", "S", "T", "U", "V", "W", "X", "Y", "Z", "a", "b", "c", "d", "e", "f", "g", "h", "i", "j", "k", "l", "m", "n", "o", "p", "q", "r", "s", "t", "u", "v", "w", "x", "y", "z", "0", "1", "2", "3", "4", "5", "6", "7", "8", "9", "+", "/">>

RECURSIVE base64_encode(_)
base64_encode(bytes) ==
    IF bytes = <<>> THEN <<>>
    ELSE LET n  == Len(bytes)
             b1 == bytes[1]
             b2 == IF n >= 2 THEN bytes[2] ELSE 0
             b3 == IF n >= 3 THEN bytes[3] ELSE 0
             c1 == B64[(b1 \div 4) + 1]
             c2 == B64[((b1 % 4) * 16 + (b2 \div 16)) + 1]
             c3 == IF n >= 2 THEN B64[((b2 % 16) * 4 + (b3 \div 64)) + 1] ELSE "="
             c4 == IF n >= 3 THEN B64[(b3 % 64) + 1] ELSE "="
         IN  <<c1, c2, c3, c4>>
             \o (IF n > 3 THEN base64_encode(SubSeq(bytes, 4, n)) ELSE <<>>)

-----------------------------------------------------------------------------
(* solana_sdk::pubkey::Pubkey                                               *)

(* Pubkey::from_str: at most 44 characters, all of the base-58 alphabet,   *)
(* decoding to exactly 32 bytes.                                           *)
from_str(text) ==
    IF Len(text) > MAX_BASE58_LEN THEN Err("WrongSize")
    ELSE LET d == bs58_decode(text)
         IN  IF ~d.ok THEN Err("Invalid")
             ELSE IF Len(d.v) # PUBKEY_BYTES THEN Err("WrongSize")
             ELSE Ok(d.v)

(* Pubkey::to_string                                                       *)
to_string(pubkey) == bs58_encode(pubkey)

TOKEN_PROGRAM_TEXT == <<"T", "o", "k", "e", "n", "k", "e", "g", "Q", "f", "e", "Z", "y", "i", "N", "w", "A", "J", "b", "N", "b", "G", "K", "P", "F", "X", "C", "W", "u", "B", "v", "f", "9", "S", "s", "6", "2", "3", "V", "Q", "5", "D", "A">>
SYSVAR_RENT_TEXT == <<"S", "y", "s", "v", "a", "r", "R", "e", "n", "t">> \o Rep("1", 33)
SYSTEM_PROGRAM_TEXT == Rep("1", 32)

(* spl_token::id() and sysvar::rent::id(), both declared from their text.  *)
spl_token_id == from_str(TOKEN_PROGRAM_TEXT).v
sysvar_rent_id == from_str(SYSVAR_RENT_TEXT).v

(* The texts and keys the catalogue of requests uses, parsed and formatted *)
(* once; any other argument is computed on the spot.                       *)
NOT_BASE58_TEXT == <<"n", "o", "t", "-", "b", "a", "s", "e", "5", "8", "!">>
SHORT_TEXT == <<"a", "b", "c">>
LONG_TEXT == Rep("1", MAX_BASE58_LEN + 1)

KnownTexts ==
    {SYSTEM_PROGRAM_TEXT, TOKEN_PROGRAM_TEXT, SYSVAR_RENT_TEXT, NOT_BASE58_TEXT,
     SHORT_TEXT, LONG_TEXT}
KnownParses == {<<t, from_str(t)>> : t \in KnownTexts}
KnownStrings == {<<p[2].v, to_string(p[2].v)>> : p \in {q \in KnownParses : q[2].ok}}

Pubkey_from_str(text) ==
    IF \E p \in KnownParses : p[1] = text
    THEN (CHOOSE p \in KnownParses : p[1] = text)[2]
    ELSE from_str(text)

Pubkey_to_string(pubkey) ==
    IF \E p \in KnownStrings : p[1] = pubkey
    THEN (CHOOSE p \in KnownStrings : p[1] = pubkey)[2]
    ELSE to_string(pubkey)

-----------------------------------------------------------------------------
(* solana_sdk::signature::Keypair                                           *)

(* The public half of a keypair is a fixed function of its 32-byte secret. *)
(* The curve arithmetic is abstracted by a byte map that is deterministic  *)
(* and is not the identity.                                                *)
ed25519_public(secret) ==
    [i \in 1..PUBKEY_BYTES |->
        (secret[i] * 3 + secret[PUBKEY_BYTES + 1 - i] * 5 + i) % 256]

(* Keypair::new() for the 32 bytes the OS random source produced; the      *)
(* 64-byte representation is secret followed by public.                    *)
Keypair_new(secret) == secret \o ed25519_public(secret)
Keypair_to_bytes(keypair) == keypair
Keypair_pubkey(keypair) == SubSeq(keypair, PUBKEY_BYTES + 1, 2 * PUBKEY_BYTES)

-----------------------------------------------------------------------------
(* spl_token::instruction                                                   *)

AccountMeta_new(pubkey, is_signer) ==
    [pubkey |-> pubkey, is_signer |-> is_signer, is_writable |-> TRUE]
AccountMeta_new_readonly(pubkey, is_signer) ==
    [pubkey |-> pubkey, is_signer |-> is_signer, is_writable |-> FALSE]

IncorrectProgramId == "The account did not have the expected program id"
InvalidInstructionData == "An instruction's data contents was invalid"
ProgramErrors == {IncorrectProgramId, InvalidInstructionData}

check_program_account(token_program_id) ==
    IF token_program_id # spl_token_id THEN Err(IncorrectProgramId) ELSE Ok(<<>>)

(* TokenInstruction::InitializeMint.pack(): tag 0, decimals, the mint       *)
(* authority, then the optional freeze authority (0, or 1 and the key).     *)
initialize_mint(token_program_id, mint_pubkey, mint_authority_pubkey, freeze_authority_pubkey, decimals) ==
    IF ~check_program_account(token_program_id).ok
    THEN check_program_account(token_program_id)
    ELSE Ok([program_id |-> token_program_id,
             accounts |-> <<AccountMeta_new(mint_pubkey, FALSE),
                            AccountMeta_new_readonly(sysvar_rent_id, FALSE)>>,
             data |-> <<0, decimals>> \o mint_authority_pubkey
                      \o (IF IsSome(freeze_authority_pubkey)
                          THEN <<1>> \o Unwrap(freeze_authority_pubkey)
                          ELSE <<0>>)])

(* TokenInstruction::MintTo.pack(): tag 7, amount as 8 little-endian bytes. *)
mint_to(token_program_id, mint_pubkey, account_pubkey, owner_pubkey, signer_pubkeys, amount) ==
    IF ~check_program_account(token_program_id).ok
    THEN check_program_account(token_program_id)
    ELSE Ok([program_id |-> token_program_id,
             accounts |-> <<AccountMeta_new(mint_pubkey, FALSE),
                            AccountMeta_new(account_pubkey, FALSE),
                            AccountMeta_new_readonly(owner_pubkey, signer_pubkeys = <<>>)>>
                          \o [i \in 1..Len(signer_pubkeys) |->
                                AccountMeta_new_readonly(signer_pubkeys[i], TRUE)],
             data |-> <<7>> \o amount])

(* What a call of the token library may return.  The linked crate returns  *)
(* `exact`; with lib = "fallible" the call is only known by its signature, *)
(* Result<Instruction, ProgramError>, and may also fail.                   *)
LibResults(mode, exact) ==
    IF mode = "fallible" THEN {exact} \cup {Err(m) : m \in ProgramErrors}
    ELSE {exact}

-----------------------------------------------------------------------------
(* JSON bodies and the web::Json<T> extractor                               *)

Absent == [t |-> "absent", v |-> <<>>]
JStr(text) == [t |-> "string", v |-> text]
JNum(text) == [t |-> "number", v |-> text]

DIGITS == <<"0", "1", "2", "3", "4", "5", "6", "7", "8", "9">>

RECURSIVE DecimalLE(_, _)
DecimalLE(text, out) ==
    IF text = <<>> THEN out
    ELSE DecimalLE(Tail(text), MulAdd(out, 10, IndexOf(DIGITS, text[1]), 256))

(* serde_json into u64: a sign or a value past 2^64-1 is refused; the      *)
(* value is kept as its 8 little-endian bytes.                             *)
deserialize_u64(j) ==
    IF j.t # "number" THEN Err("invalid type")
    ELSE IF j.v = <<>> \/ \E i \in 1..Len(j.v) : IndexOf(DIGITS, j.v[i]) < 0
    THEN Err("invalid value")
    ELSE LET le == DecimalLE(j.v, <<>>)
         IN  IF Len(le) > U64_BYTES THEN Err("invalid type")
             ELSE Ok(le \o Rep(0, U64_BYTES - Len(le)))

(* serde_json into u8: a u64 that is at most 255.                          *)
deserialize_u8(j) ==
    LET r == deserialize_u64(j)
    IN  IF ~r.ok THEN r
        ELSE IF \E i \in 2..U64_BYTES : r.v[i] # 0 THEN Err("invalid value")
        ELSE IF r.v[1] > U8_MAX THEN Err("invalid value")
        ELSE Ok(r.v[1])

deserialize_String(j) ==
    IF j.t = "absent" THEN Err("missing field")
    ELSE IF j.t # "string" THEN Err("invalid type")
    ELSE Ok(j.v)

(* #[derive(Deserialize)] struct CreateTokenRequest                        *)
CreateTokenRequest(body) ==
    LET a == deserialize_String(body.mintAuthority)
        m == deserialize_String(body.mint)
        d == IF body.decimals.t = "absent" THEN Err("missing field")
             ELSE deserialize_u8(body.decimals)
    IN  IF ~a.ok THEN a ELSE IF ~m.ok THEN m ELSE IF ~d.ok THEN d
        ELSE Ok([mint_authority |-> a.v, mint |-> m.v, decimals |-> d.v])

(* Faulty variant of MintTokenRequest: amount declared as u32.             *)
MintTokenRequest_u32(body) ==
    LET m == deserialize_String(body.mint)
        d == deserialize_String(body.destination)
        a == deserialize_String(body.authority)
        n == IF body.amount.t = "absent" THEN Err("missing field")
             ELSE deserialize_u64(body.amount)
    IN  IF ~m.ok THEN m ELSE IF ~d.ok THEN d ELSE IF ~a.ok THEN a
        ELSE IF ~n.ok THEN n
        ELSE IF \E i \in 5..U64_BYTES : n.v[i] # 0 THEN Err("invalid value")
        ELSE Ok([mint |-> m.v, destination |-> d.v, authority |-> a.v,
                 amount |-> n.v])

(* #[derive(Deserialize)] struct MintTokenRequest                          *)
MintTokenRequest(body) ==
    LET m == deserialize_String(body.mint)
        d == deserialize_String(body.destination)
        a == deserialize_String(body.authority)
        n == IF body.amount.t = "absent" THEN Err("missing field")
             ELSE deserialize_u64(body.amount)
    IN  IF ~m.ok THEN m ELSE IF ~d.ok THEN d ELSE IF ~a.ok THEN a
        ELSE IF ~n.ok THEN n
        ELSE Ok([mint |-> m.v, destination |-> d.v, authority |-> a.v,
                 amount |-> n.v])

-----------------------------------------------------------------------------
(* Responses                                                                *)

HttpResponse(status, json, text) == [status |-> status, json |-> json, text |-> text]

ApiResponse(success, data, error) ==
    [success |-> success, data |-> data, error |-> error]

(* No JsonConfig error handler is registered on the App, so a body the     *)
(* extractor refuses is answered by the framework: 400 with the error's     *)
(* text as a plain-text body, and the handler is not called.               *)
JsonDeserializeError == "Json deserialize error"
json_payload_error_response(e) ==
    HttpResponse(400, None, Some(JsonDeserializeError \o ": " \o e))

(* Faulty variant of error_response: the envelope also carries a payload.  *)
error_response_with_data(msg) ==
    HttpResponse(400, Some(ApiResponse(FALSE, Some(<<>>), Some(msg))), None)

error_response(msg) ==
    HttpResponse(400, Some(ApiResponse(FALSE, None, Some(msg))), None)

-----------------------------------------------------------------------------
(* Bounds and the requests the environment sends                           *)

MaxWorkers == 2
Workers == 1..MaxWorkers

U64_MAX_TEXT == <<"1", "8", "4", "4", "6", "7", "4", "4", "0", "7", "3", "7", "0", "9", "5", "5", "1", "6", "1", "5">>
U64_OVER_TEXT == <<"1", "8", "4", "4", "6", "7", "4", "4", "0", "7", "3", "7", "0", "9", "5", "5", "1", "6", "1", "6">>

NoBody ==
    [mintAuthority |-> Absent, mint |-> Absent, decimals |-> Absent,
     destination |-> Absent, authority |-> Absent, amount |-> Absent]

Request(method, path, body) == [method |-> method, path |-> path, body |-> body]

CreateRequest(a, m, d) ==
    Request("POST", "/token/create",
            [NoBody EXCEPT !.mintAuthority = a, !.mint = m, !.decimals = d])

MintRequest(m, d, a, n) ==
    Request("POST", "/token/mint",
            [NoBody EXCEPT !.mint = m, !.destination = d, !.authority = a, !.amount = n])

KeypairRequest == Request("POST", "/keypair", NoBody)

HealthRequests ==
    {Request("GET", "/health", NoBody),
     Request("GET", "/health", [NoBody EXCEPT !.mint = JStr(NOT_BASE58_TEXT)])}

(* The full catalogue: every address text in every address field, fields   *)
(* that are missing or of the wrong type, numbers at and past the ends of  *)
(* their types.                                                            *)
AddrValues == {JStr(a) : a \in KnownTexts}

DecimalsValues ==
    {JNum(<<"0">>), JNum(<<"9">>), JNum(<<"2", "5", "5">>), JNum(<<"2", "5", "6">>),
     JNum(<<"-", "1">>), JStr(<<"9">>), Absent}

AmountValues ==
    {JNum(<<"0">>), JNum(<<"1">>), JNum(U64_MAX_TEXT), JNum(U64_OVER_TEXT),
     JNum(<<"-", "1">>), Absent}

FullRequests ==
    {CreateRequest(a, m, d) :
        a \in AddrValues \cup {Absent}, m \in AddrValues \cup {Absent, JNum(<<"5">>)},
        d \in DecimalsValues}
    \cup {MintRequest(m, d, a, n) :
        m \in AddrValues, d \in AddrValues, a \in AddrValues \cup {Absent},
        n \in AmountValues}
    \cup {KeypairRequest} \cup HealthRequests

(* The core catalogue, for several workers at once.                        *)
CoreAddrValues == {JStr(TOKEN_PROGRAM_TEXT), JStr(NOT_BASE58_TEXT)}

CoreRequests ==
    {CreateRequest(a, m, d) :
        a \in CoreAddrValues, m \in CoreAddrValues, d \in {JNum(<<"0">>), JNum(<<"9">>)}}
    \cup {MintRequest(m, JStr(TOKEN_PROGRAM_TEXT), JStr(TOKEN_PROGRAM_TEXT), JNum(<<"0">>)) :
        m \in CoreAddrValues}
    \cup {KeypairRequest} \cup HealthRequests

Requests(tag) == IF tag = "full" THEN FullRequests ELSE CoreRequests

(* What the OS random source may hand to Keypair::new().                   *)
Secrets(tag) ==
    IF tag = "full"
    THEN {Rep(0, PUBKEY_BYTES), [i \in 1..PUBKEY_BYTES |-> i], Rep(U8_MAX, PUBKEY_BYTES)}
    ELSE {[i \in 1..PUBKEY_BYTES |-> i]}

-----------------------------------------------------------------------------
(* A worker's connection: the request it is serving, the handler's place   *)
(* and locals, and the response.  calls and failure are history: the       *)
(* library calls made for the request, and the error the token library     *)
(* returned, if it returned one.                                           *)

NoLocals ==
    [keypair |-> None, mint_authority_pubkey |-> None, mint_pubkey |-> None,
     destination_pubkey |-> None, authority_pubkey |-> None, instruction |-> None]

Idle ==
    [pc |-> "idle", method |-> "", path |-> "", body |-> NoBody, req |-> None,
     local |-> NoLocals, calls |-> <<>>, failure |-> None, resp |-> None]

(* The handler returns: its locals and the extracted request are dropped.  *)
Return(c, response) ==
    [c EXCEPT !.pc = "done", !.req = None, !.local = NoLocals, !.resp = Some(response)]

Called(c, name) == [c EXCEPT !.calls = Append(@, name)]
Returned(c, result) ==
    IF result.ok THEN c ELSE [c EXCEPT !.failure = Some(result.e)]

(* main: the four routes of the App.                                       *)
route(c) ==
    IF c.method = "POST" /\ c.path = "/keypair" THEN "kp_new"
    ELSE IF c.method = "POST" /\ c.path = "/token/create" THEN "extract"
    ELSE IF c.method = "POST" /\ c.path = "/token/mint" THEN "extract"
    ELSE "health"

(* web::Json<CreateTokenRequest> / web::Json<MintTokenRequest>             *)
extract(c) ==
    LET r == IF c.path = "/token/create" THEN CreateTokenRequest(c.body)
             ELSE MintTokenRequest(c.body)
    IN  IF r.ok
        THEN [c EXCEPT !.req = Some(r.v),
                       !.pc = IF c.path = "/token/create"
                              THEN "ct_parse_mint_authority" ELSE "mt_parse_mint"]
        ELSE Return(c, json_payload_error_response(r.e))

-----------------------------------------------------------------------------
(* generate_keypair                                                        *)

generate_keypair_new(c, secret) ==
    [Called(c, "Keypair::new") EXCEPT !.pc = "kp_respond",
                                      !.local.keypair = Some(Keypair_new(secret))]

(* Faulty variant of secret_key_bytes: the second half of the 64 bytes.    *)
secret_key_bytes_public_half(keypair) == SubSeq(Keypair_to_bytes(keypair), 33, 64)

secret_key_bytes(keypair) == SubSeq(Keypair_to_bytes(keypair), 1, 32)

KeypairResponse(keypair) ==
    [pubkey |-> Pubkey_to_string(Keypair_pubkey(keypair)),
     secret |-> bs58_encode(secret_key_bytes(keypair))]

generate_keypair_respond(c) ==
    Return(c, HttpResponse(200,
        Some(ApiResponse(TRUE, Some(KeypairResponse(Unwrap(c.local.keypair))), None)),
        None))

-----------------------------------------------------------------------------
(* create_token                                                            *)

AccountInfo(acc) ==
    [pubkey |-> Pubkey_to_string(acc.pubkey), is_signer |-> acc.is_signer,
     is_writable |-> acc.is_writable]

InstructionResponse(instruction) ==
    [program_id |-> Pubkey_to_string(instruction.program_id),
     accounts |-> [i \in 1..Len(instruction.accounts) |->
                      AccountInfo(instruction.accounts[i])],
     instruction_data |-> base64_encode(instruction.data)]

instruction_ok(instruction) ==
    HttpResponse(200, Some(ApiResponse(TRUE, Some(InstructionResponse(instruction)), None)),
                 None)

create_token_parse_mint_authority(c) ==
    LET r == Pubkey_from_str(Unwrap(c.req).mint_authority)
        d == Called(c, "Pubkey::from_str(mintAuthority)")
    IN  IF r.ok
        THEN [d EXCEPT !.pc = "ct_parse_mint", !.local.mint_authority_pubkey = Some(r.v)]
        ELSE Return(d, error_response("Invalid base58 string for mintAuthority."))

(* Faulty variant of create_token_parse_mint: the error names the other    *)
(* field.                                                                  *)
create_token_parse_mint_wrong_field(c) ==
    LET r == Pubkey_from_str(Unwrap(c.req).mint)
        d == Called(c, "Pubkey::from_str(mint)")
    IN  IF r.ok
        THEN [d EXCEPT !.pc = "ct_initialize_mint", !.local.mint_pubkey = Some(r.v)]
        ELSE Return(d, error_response("Invalid base58 string for mintAuthority."))

(* Faulty variant of create_token_parse_mint: a text that does not parse   *)
(* is replaced by Pubkey::default() and the handler goes on.               *)
create_token_parse_mint_default(c) ==
    LET r == Pubkey_from_str(Unwrap(c.req).mint)
        d == Called(c, "Pubkey::from_str(mint)")
    IN  [d EXCEPT !.pc = "ct_initialize_mint",
                  !.local.mint_pubkey = Some(IF r.ok THEN r.v ELSE Rep(0, PUBKEY_BYTES))]

create_token_parse_mint(c) ==
    LET r == Pubkey_from_str(Unwrap(c.req).mint)
        d == Called(c, "Pubkey::from_str(mint)")
    IN  IF r.ok
        THEN [d EXCEPT !.pc = "ct_initialize_mint", !.local.mint_pubkey = Some(r.v)]
        ELSE Return(d, error_response("Invalid base58 string for mint."))

(* Faulty variant of create_token_call: decimals is read from a buffer     *)
(* shared by the workers, which holds what another connection put there.   *)
create_token_call_shared(c) ==
    LET others == {v \in Workers : /\ conn[v] # c
                                   /\ conn[v].path = "/token/create"
                                   /\ CreateTokenRequest(conn[v].body).ok}
        decimals == IF others = {} THEN Unwrap(c.req).decimals
                    ELSE CreateTokenRequest(conn[CHOOSE v \in others : TRUE].body).v.decimals
    IN  initialize_mint(spl_token_id, Unwrap(c.local.mint_pubkey),
                        Unwrap(c.local.mint_authority_pubkey), None, decimals)

create_token_call(c) ==
    initialize_mint(spl_token_id, Unwrap(c.local.mint_pubkey),
                    Unwrap(c.local.mint_authority_pubkey), None, Unwrap(c.req).decimals)

(* Faulty variant of create_token_instruction: the library's message is    *)
(* passed on as it is.                                                     *)
create_token_instruction_verbatim(c, result) ==
    LET d == Returned(Called(c, "initialize_mint"), result)
    IN  IF result.ok
        THEN [d EXCEPT !.pc = "ct_respond", !.local.instruction = Some(result.v)]
        ELSE Return(d, error_response(result.e))

create_token_instruction(c, result) ==
    LET d == Returned(Called(c, "initialize_mint"), result)
    IN  IF result.ok
        THEN [d EXCEPT !.pc = "ct_respond", !.local.instruction = Some(result.v)]
        ELSE Return(d, error_response("Failed to create instruction: " \o result.e))

create_token_respond(c) == Return(c, instruction_ok(Unwrap(c.local.instruction)))

-----------------------------------------------------------------------------
(* mint_token                                                              *)

(* Faulty variant of mint_token_parse_mint: the destination text is parsed *)
(* where the mint text should be.                                          *)
mint_token_parse_mint_wrong_text(c) ==
    LET r == Pubkey_from_str(Unwrap(c.req).destination)
        d == Called(c, "Pubkey::from_str(mint)")
    IN  IF r.ok
        THEN [d EXCEPT !.pc = "mt_parse_destination", !.local.mint_pubkey = Some(r.v)]
        ELSE Return(d, error_response("Invalid base58 string for mint."))

mint_token_parse_mint(c) ==
    LET r == Pubkey_from_str(Unwrap(c.req).mint)
        d == Called(c, "Pubkey::from_str(mint)")
    IN  IF r.ok
        THEN [d EXCEPT !.pc = "mt_parse_destination", !.local.mint_pubkey = Some(r.v)]
        ELSE Return(d, error_response("Invalid base58 string for mint."))

mint_token_parse_destination(c) ==
    LET r == Pubkey_from_str(Unwrap(c.req).destination)
        d == Called(c, "Pubkey::from_str(destination)")
    IN  IF r.ok
        THEN [d EXCEPT !.pc = "mt_parse_authority", !.local.destination_pubkey = Some(r.v)]
        ELSE Return(d, error_response("Invalid base58 string for destination."))

mint_token_parse_authority(c) ==
    LET r == Pubkey_from_str(Unwrap(c.req).authority)
        d == Called(c, "Pubkey::from_str(authority)")
    IN  IF r.ok
        THEN [d EXCEPT !.pc = "mt_mint_to", !.local.authority_pubkey = Some(r.v)]
        ELSE Return(d, error_response("Invalid base58 string for authority."))

mint_token_call(c) ==
    mint_to(spl_token_id, Unwrap(c.local.mint_pubkey),
            Unwrap(c.local.destination_pubkey), Unwrap(c.local.authority_pubkey),
            <<>>, Unwrap(c.req).amount)

mint_token_instruction(c, result) ==
    LET d == Returned(Called(c, "mint_to"), result)
    IN  IF result.ok
        THEN [d EXCEPT !.pc = "mt_respond", !.local.instruction = Some(result.v)]
        ELSE Return(d, error_response("Failed to create mint-to instruction: " \o result.e))

mint_token_respond(c) == Return(c, instruction_ok(Unwrap(c.local.instruction)))

-----------------------------------------------------------------------------
(* health                                                                  *)

(* Faulty variant of health: a request that carries a body is refused.     *)
health_checks_body(c) ==
    IF c.body = NoBody THEN Return(c, HttpResponse(200, None, Some("OK")))
    ELSE Return(c, error_response("Unexpected body."))

health(c) == Return(c, HttpResponse(200, None, Some("OK")))

-----------------------------------------------------------------------------
(* Actions: one per step of a worker                                       *)

Serve(w, at) == w \in pool /\ conn[w].pc = at

Receive(w) ==
    /\ Serve(w, "idle")
    /\ \E r \in Requests(inputs) :
          LET c == [Idle EXCEPT !.method = r.method, !.path = r.path, !.body = r.body]
          IN  conn' = [conn EXCEPT ![w] = [c EXCEPT !.pc = route(c)]]
    /\ UNCHANGED <<pool, inputs, lib>>

Extract(w) ==
    /\ Serve(w, "extract")
    /\ conn' = [conn EXCEPT ![w] = extract(conn[w])]
    /\ UNCHANGED <<pool, inputs, lib>>

GenerateKeypair_New(w) ==
    /\ Serve(w, "kp_new")
    /\ \E secret \in Secrets(inputs) :
          conn' = [conn EXCEPT ![w] = generate_keypair_new(conn[w], secret)]
    /\ UNCHANGED <<pool, inputs, lib>>

GenerateKeypair_Respond(w) ==
    /\ Serve(w, "kp_respond")
    /\ conn' = [conn EXCEPT ![w] = generate_keypair_respond(conn[w])]
    /\ UNCHANGED <<pool, inputs, lib>>

CreateToken_ParseMintAuthority(w) ==
    /\ Serve(w, "ct_parse_mint_authority")
    /\ conn' = [conn EXCEPT ![w] = create_token_parse_mint_authority(conn[w])]
    /\ UNCHANGED <<pool, inputs, lib>>

CreateToken_ParseMint(w) ==
    /\ Serve(w, "ct_parse_mint")
    /\ conn' = [conn EXCEPT ![w] = create_token_parse_mint(conn[w])]
    /\ UNCHANGED <<pool, inputs, lib>>

CreateToken_InitializeMint(w) ==
    /\ Serve(w, "ct_initialize_mint")
    /\ \E result \in LibResults(lib, create_token_call(conn[w])) :
          conn' = [conn EXCEPT ![w] = create_token_instruction(conn[w], result)]
    /\ UNCHANGED <<pool, inputs, lib>>

CreateToken_Respond(w) ==
    /\ Serve(w, "ct_respond")
    /\ conn' = [conn EXCEPT ![w] = create_token_respond(conn[w])]
    /\ UNCHANGED <<pool, inputs, lib>>

MintToken_ParseMint(w) ==
    /\ Serve(w, "mt_parse_mint")
    /\ conn' = [conn EXCEPT ![w] = mint_token_parse_mint(conn[w])]
    /\ UNCHANGED <<pool, inputs, lib>>

MintToken_ParseDestination(w) ==
    /\ Serve(w, "mt_parse_destination")
    /\ conn' = [conn EXCEPT ![w] = mint_token_parse_destination(conn[w])]
    /\ UNCHANGED <<pool, inputs, lib>>

MintToken_ParseAuthority(w) ==
    /\ Serve(w, "mt_parse_authority")
    /\ conn' = [conn EXCEPT ![w] = mint_token_parse_authority(conn[w])]
    /\ UNCHANGED <<pool, inputs, lib>>

MintToken_MintTo(w) ==
    /\ Serve(w, "mt_mint_to")
    /\ \E result \in LibResults(lib, mint_token_call(conn[w])) :
          conn' = [conn EXCEPT ![w] = mint_token_instruction(conn[w], result)]
    /\ UNCHANGED <<pool, inputs, lib>>

MintToken_Respond(w) ==
    /\ Serve(w, "mt_respond")
    /\ conn' = [conn EXCEPT ![w] = mint_token_respond(conn[w])]
    /\ UNCHANGED <<pool, inputs, lib>>

Health(w) ==
    /\ Serve(w, "health")
    /\ conn' = [conn EXCEPT ![w] = health(conn[w])]
    /\ UNCHANGED <<pool, inputs, lib>>

(* The response is written to the socket and the worker takes the next     *)
(* request.                                                                *)
Deliver(w) ==
    /\ Serve(w, "done")
    /\ conn' = [conn EXCEPT ![w] = Idle]
    /\ UNCHANGED <<pool, inputs, lib>>

-----------------------------------------------------------------------------
(* Specifications                                                          *)

(* One worker, the full request catalogue, the token crate as linked.      *)
Init ==
    /\ conn = [w \in Workers |-> Idle]
    /\ pool = {1}
    /\ inputs = "full"
    /\ lib = "spl_token"

(* MaxWorkers workers serving concurrently, the core catalogue.            *)
InitConc ==
    /\ conn = [w \in Workers |-> Idle]
    /\ pool = Workers
    /\ inputs = "core"
    /\ lib = "spl_token"

(* One worker; the token crate known only by its Result signature.         *)
InitLibErr ==
    /\ conn = [w \in Workers |-> Idle]
    /\ pool = {1}
    /\ inputs = "full"
    /\ lib = "fallible"

Next ==
    \E w \in Workers :
        \/ Receive(w)
        \/ Extract(w)
        \/ GenerateKeypair_New(w)
        \/ GenerateKeypair_Respond(w)
        \/ CreateToken_ParseMintAuthority(w)
        \/ CreateToken_ParseMint(w)
        \/ CreateToken_InitializeMint(w)
        \/ CreateToken_Respond(w)
        \/ MintToken_ParseMint(w)
        \/ MintToken_ParseDestination(w)
        \/ MintToken_ParseAuthority(w)
        \/ MintToken_MintTo(w)
        \/ MintToken_Respond(w)
        \/ Health(w)
        \/ Deliver(w)

Spec == Init /\ [][Next]_vars
SpecConc == InitConc /\ [][Next]_vars
SpecLibErr == InitLibErr /\ [][Next]_vars

-----------------------------------------------------------------------------
(* Properties                                                              *)

Range(f) == {f[i] : i \in DOMAIN f}

ValidTexts == {p[1] : p \in {q \in KnownParses : q[2].ok}}
IsValidAddr(j) == j.t = "string" /\ j.v \in ValidTexts
IsBadAddr(j) == j.t = "string" /\ j.v \notin ValidTexts

(* Number texts of the catalogue that lie within u8, and within u64.       *)
U8Texts == {<<"0">>, <<"9">>, <<"2", "5", "5">>}
U64Texts == {<<"0">>, <<"1">>, <<"9">>, <<"2", "5", "5">>, <<"2", "5", "6">>, U64_MAX_TEXT}
InU8(j) == j.t = "number" /\ j.v \in U8Texts
InU64(j) == j.t = "number" /\ j.v \in U64Texts

DoneAt(w, path) == conn[w].pc = "done" /\ conn[w].path = path
Response(w) == Unwrap(conn[w].resp)

IsEnvelope(r) == IsSome(r.json) /\ IsNone(r.text)
EnvelopeError(r, msg) ==
    /\ r.status = 400
    /\ IsEnvelope(r)
    /\ Unwrap(r.json) = [success |-> FALSE, data |-> None, error |-> Some(msg)]
EnvelopeSuccess(r) ==
    /\ r.status = 200
    /\ IsEnvelope(r)
    /\ Unwrap(r.json).success /\ IsSome(Unwrap(r.json).data) /\ IsNone(Unwrap(r.json).error)

(* C1: every JSON envelope a handler answers with has exactly one of data  *)
(* and error: success is true iff data is present, and iff error is        *)
(* absent.                                                                 *)
C1_EnvelopeExclusive ==
    \A w \in Workers :
        (conn[w].pc = "done" /\ IsSome(Response(w).json)) =>
            LET e == Unwrap(Response(w).json)
            IN  /\ e.success <=> IsSome(e.data)
                /\ e.success <=> IsNone(e.error)

C1_Witness ==
    \E w \in Workers :
        /\ DoneAt(w, "/token/create")
        /\ IsSome(Response(w).json)
        /\ ~Unwrap(Response(w).json).success
        /\ IsSome(Unwrap(Response(w).json).error)

(* C2 as stated: a create_token request whose mint is not a valid base-58  *)
(* public key is answered 400 "Invalid base58 string for mint.", whatever  *)
(* text mintAuthority is and whatever decimals is within 0..255.           *)
C2_AnyAuthorityAnyDecimals ==
    \A w \in Workers :
        ( /\ DoneAt(w, "/token/create")
          /\ conn[w].body.mintAuthority.t = "string"
          /\ InU8(conn[w].body.decimals)
          /\ IsBadAddr(conn[w].body.mint) ) =>
            EnvelopeError(Response(w), "Invalid base58 string for mint.")

(* C2 amended: a create_token request whose mintAuthority is a valid       *)
(* base-58 public key and whose mint is not, whatever decimals is within   *)
(* 0..255, is answered 400 "Invalid base58 string for mint.".              *)
C2_ValidAuthorityBadMint ==
    \A w \in Workers :
        ( /\ DoneAt(w, "/token/create")
          /\ IsValidAddr(conn[w].body.mintAuthority)
          /\ InU8(conn[w].body.decimals)
          /\ IsBadAddr(conn[w].body.mint) ) =>
            EnvelopeError(Response(w), "Invalid base58 string for mint.")

C2_Witness ==
    \E w \in Workers :
        /\ DoneAt(w, "/token/create")
        /\ IsValidAddr(conn[w].body.mintAuthority)
        /\ conn[w].body.decimals = JNum(<<"2", "5", "5">>)
        /\ conn[w].body.mint = JStr(NOT_BASE58_TEXT)
        /\ EnvelopeError(Response(w), "Invalid base58 string for mint.")

MintFields == <<"mint", "destination", "authority">>
MintField(body, i) ==
    IF i = 1 THEN body.mint ELSE IF i = 2 THEN body.destination ELSE body.authority
MintBadFields(body) == {i \in 1..3 : IsBadAddr(MintField(body, i))}
Min(S) == CHOOSE i \in S : \A j \in S : i <= j

(* C3: mint_token validates mint, destination, authority in that order and *)
(* reports only the first malformed one; the fields after it are not       *)
(* parsed.                                                                 *)
C3_FirstMalformedFieldWins ==
    \A w \in Workers :
        LET body == conn[w].body
        IN  ( /\ DoneAt(w, "/token/mint")
              /\ \A i \in 1..3 : MintField(body, i).t = "string"
              /\ InU64(body.amount)
              /\ MintBadFields(body) # {} ) =>
                LET first == Min(MintBadFields(body))
                IN  /\ EnvelopeError(Response(w),
                          "Invalid base58 string for " \o MintFields[first] \o ".")
                    /\ conn[w].calls =
                          [k \in 1..first |-> "Pubkey::from_str(" \o MintFields[k] \o ")"]

C3_Witness ==
    \E w \in Workers :
        /\ DoneAt(w, "/token/mint")
        /\ IsValidAddr(conn[w].body.mint)
        /\ IsBadAddr(conn[w].body.destination)
        /\ IsBadAddr(conn[w].body.authority)
        /\ InU64(conn[w].body.amount)
        /\ EnvelopeError(Response(w), "Invalid base58 string for destination.")

(* C4: initialize_mint and mint_to are called only after every address     *)
(* field of the request has parsed; a request with an address field that   *)
(* does not parse is answered with an error and no Instruction is built    *)
(* for it.                                                                 *)
C4_ConstructorAfterParsing ==
    \A w \in Workers :
        LET c == conn[w]
        IN  /\ "initialize_mint" \in Range(c.calls) =>
                  /\ c.calls = <<"Pubkey::from_str(mintAuthority)",
                                 "Pubkey::from_str(mint)", "initialize_mint">>
                  /\ IsValidAddr(c.body.mintAuthority) /\ IsValidAddr(c.body.mint)
            /\ "mint_to" \in Range(c.calls) =>
                  /\ c.calls = <<"Pubkey::from_str(mint)", "Pubkey::from_str(destination)",
                                 "Pubkey::from_str(authority)", "mint_to">>
                  /\ \A i \in 1..3 : IsValidAddr(MintField(c.body, i))
            /\ IsSome(c.local.instruction) =>
                  (c.calls # <<>> /\ c.calls[Len(c.calls)] \in {"initialize_mint", "mint_to"})
            /\ ( \/ /\ c.path = "/token/create"
                    /\ ~(IsValidAddr(c.body.mintAuthority) /\ IsValidAddr(c.body.mint))
                 \/ /\ c.path = "/token/mint"
                    /\ \E i \in 1..3 : ~IsValidAddr(MintField(c.body, i)) ) =>
                  /\ IsNone(c.local.instruction)
                  /\ Range(c.calls) \cap {"initialize_mint", "mint_to"} = {}
                  /\ c.pc = "done" => Response(w).status = 400

C4_Witness ==
    \E w \in Workers :
        /\ conn[w].pc = "ct_respond"
        /\ IsSome(conn[w].local.instruction)
        /\ conn[w].calls[Len(conn[w].calls)] = "initialize_mint"

(* C5: every request to POST /keypair, /token/create or /token/mint that   *)
(* fails, a body with a missing, mistyped or out-of-range field included,  *)
(* is answered 400 with the JSON envelope, success false and an error      *)
(* string.                                                                 *)
C5_EveryFailureIsEnvelope ==
    \A w \in Workers :
        ( /\ conn[w].pc = "done"
          /\ conn[w].path \in {"/keypair", "/token/create", "/token/mint"}
          /\ ~EnvelopeSuccess(Response(w)) ) =>
            /\ Response(w).status = 400
            /\ IsEnvelope(Response(w))
            /\ ~Unwrap(Response(w).json).success
            /\ IsSome(Unwrap(Response(w).json).error)

C7_HealthAlwaysOk ==
    \A w \in Workers :
        DoneAt(w, "/health") => Response(w) = [status |-> 200, json |-> None, text |-> Some("OK")]

C7_Witness ==
    \E w, v \in Workers :
        /\ w # v
        /\ DoneAt(w, "/health")
        /\ conn[w].body # NoBody
        /\ Response(w).text = Some("OK")
        /\ conn[v].pc = "ct_parse_mint"

(* C8: mint_token with three valid addresses and any amount of the u64     *)
(* range, 0 and 2^64-1 included, answers 200, success true, with the       *)
(* accounts mint, destination, authority in that order and a non-empty     *)
(* instruction_data.                                                       *)
C8_AnyAmountAccepted ==
    \A w \in Workers :
        LET body == conn[w].body
        IN  ( /\ DoneAt(w, "/token/mint")
              /\ \A i \in 1..3 : IsValidAddr(MintField(body, i))
              /\ InU64(body.amount) ) =>
                /\ EnvelopeSuccess(Response(w))
                /\ LET data == Unwrap(Unwrap(Response(w).json).data)
                   IN  /\ [i \in 1..Len(data.accounts) |-> data.accounts[i].pubkey]
                            = <<body.mint.v, body.destination.v, body.authority.v>>
                       /\ data.instruction_data # <<>>

C8_Witness ==
    \E w \in Workers :
        /\ DoneAt(w, "/token/mint")
        /\ conn[w].body.mint = JStr(SYSTEM_PROGRAM_TEXT)
        /\ conn[w].body.destination = JStr(TOKEN_PROGRAM_TEXT)
        /\ conn[w].body.authority = JStr(SYSVAR_RENT_TEXT)
        /\ conn[w].body.amount = JNum(U64_MAX_TEXT)
        /\ EnvelopeSuccess(Response(w))

SameRequest(c, d) == c.method = d.method /\ c.path = d.path /\ c.body = d.body

(* C9: the response of create_token and mint_token is a function of the    *)
(* request alone: two workers that have answered the same request, at any  *)
(* times and under any interleaving with other requests, have given the    *)
(* same response.                                                          *)
C9_SameRequestSameResponse ==
    \A w, v \in Workers :
        ( /\ conn[w].pc = "done" /\ conn[v].pc = "done"
          /\ conn[w].path \in {"/token/create", "/token/mint"}
          /\ SameRequest(conn[w], conn[v]) ) =>
            conn[w].resp = conn[v].resp

C9_Witness ==
    \E w, v \in Workers :
        /\ w # v
        /\ DoneAt(w, "/token/create") /\ DoneAt(v, "/token/create")
        /\ SameRequest(conn[w], conn[v])
        /\ EnvelopeSuccess(Response(w))
        /\ conn[w].resp = conn[v].resp

(* C10: generate_keypair answers 200, success true; the secret is 32       *)
(* bytes, the first half of the generated keypair, and the public key      *)
(* derived from it is the pubkey of the same response; the keypair is held *)
(* nowhere once the response is built.                                     *)
C10_KeypairConsistent ==
    \A w \in Workers :
        DoneAt(w, "/keypair") =>
            /\ EnvelopeSuccess(Response(w))
            /\ LET data == Unwrap(Unwrap(Response(w).json).data)
                   secret == bs58_decode(data.secret)
               IN  /\ secret.ok
                   /\ Len(secret.v) = 32
                   /\ secret.v \in Secrets(inputs)
                   /\ bs58_encode(ed25519_public(secret.v)) = data.pubkey
            /\ \A v \in Workers : conn[v].pc \in {"done", "idle"} => IsNone(conn[v].local.keypair)

C10_Witness ==
    \E w \in Workers :
        /\ DoneAt(w, "/keypair")
        /\ EnvelopeSuccess(Response(w))
        /\ Len(Unwrap(Unwrap(Response(w).json).data).pubkey) > 0

====
